---- MODULE Spec2Model ----
(***************************************************************************)
(* Policy-document backend with a retrieval-augmented chat assistant.      *)
(*                                                                         *)
(* The specifications share the state of the Policy Catalog (the SQL table *)
(* "policies") and of the Vector Index (the Chroma collection):            *)
(*   Spec        one chat request at a time through the /chat route and    *)
(*               PolicyAssistantService.get_policy_chat_response, against  *)
(*               a catalog and an index drawn in Init;                     *)
(*   SpecIngest  the create / update / delete handlers of PolicyService    *)
(*               interleaving at their await points, and searches          *)
(*               (SpecIngestLive: the handlers resumed under weak          *)
(*               fairness);                                                *)
(*   SpecDeep    the chat request against a catalog of more rows than the  *)
(*               fallback lists and an index of more chunks than the       *)
(*               synthesis quotes.                                         *)
(*   SpecLive    the chat request, its steps taken under weak fairness.     *)
(* SpecChunk applies LLMService.chunk_pdf_content to bounded documents,    *)
(* SpecSynth applies _synthesize_from_chunks to bounded result lists,      *)
(* SpecExtract applies _validate_and_extract_policy_info to bounded        *)
(* prompts.                                                                *)
(***************************************************************************)
EXTENDS Integers, Sequences, FiniteSets, TLC

VARIABLES
    catalog,    \* policy id -> row of the "policies" table (exists = FALSE: no row)
    index,      \* the Chroma collection: chunks, nearest to the query first
    vdb,        \* per VectorDBService instance: client / collection initialised
    pc,         \* position of the chat request
    req,        \* locals of the chat request
    env,        \* what the collaborators did for this request
    resp,       \* result of get_policy_chat_response, and the route's status
    calls,      \* how often each collaborator was invoked for this request
    round,      \* 1: a request; 2: the same request issued again
    prevIds,    \* relevant-policy ids of the round-1 response
    handlers,   \* the create / update handlers in flight, at their await points
    deletedAck, \* ids whose delete_document returned, nothing added since
    ops,        \* catalog operations started
    nextDoc,    \* number of the next uploaded document
    chunker,    \* a call of LLMService.chunk_pdf_content: its input, its result
    synth       \* a call of _synthesize_from_chunks: its input, its result

ingestVars == <<handlers, deletedAck, ops, nextDoc>>
vars == <<catalog, index, vdb, pc, req, env, resp, calls, round, prevIds, ingestVars,
         chunker, synth>>

-----------------------------------------------------------------------------
(* Bounds *)

NumPolicies == 2        \* policy ids 1..NumPolicies
MaxChunks == 2          \* chunks in the index drawn in Init
MaxQLen == 2            \* words in a question
MaxPromptLen == 2       \* words in a prompt given to the extractor alone
NumHandlers == 2        \* catalog requests in flight at once
MaxOps == 3             \* catalog operations started in a behaviour
MaxDocChunks == 2       \* chunks of an uploaded document
MaxCatalog == 6         \* rows of the large catalog
MaxDeepChunks == 4      \* chunks of the large index
MaxLiveChunks == 1      \* chunks in the index of the fair specification
MaxSynthDocs == 4       \* entries of a documents list given to the synthesis
MaxPages == 2           \* pages of a PDF given to the chunker
MaxPageWords == 3       \* words on a page
MaxChunkSize == 3       \* chunk_size given to the chunker

PolicyIds == 1..NumPolicies
None == "none"
Unset == "unset"

-----------------------------------------------------------------------------
(* Strings.  A question is its sequence of words (maximal runs of word     *)
(* characters); str.strip() and str.lower() are tabulated on the strings   *)
(* the model uses.                                                         *)

PolicyType == {"leave", "hr", "it", "customer"}
StoredTypes == {"hr", "it"}
Words == {"hr", "IT", "item"}
RawTypes == {"all", " HR ", "leave", "finance"}
\* the words of the prompts given to the extractor alone; a prompt is its
\* words joined by single blanks, 'faq' stands with its quotes
PromptWords == {"Show", "install", "about", "what", "is", "find", "look", "for",
                "policy", "policyholder", "hr", "IT", "item", "'faq'"}

Strip(s) == IF s = " HR " THEN "HR" ELSE s

Lower(s) ==
    CASE s = "HR" -> "hr"
      [] s = "IT" -> "it"
      [] s = " HR " -> " hr "
      [] s = "Show" -> "show"
      [] OTHER -> s

\* _norm of get_policy_chat_response; VectorDBService normalises the same way
_norm(x) == IF x = None THEN "" ELSE Lower(Strip(x))

RECURSIVE SeqsUpTo(_, _)
SeqsUpTo(S, n) ==
    IF n = 0 THEN {<<>>}
    ELSE LET shorter == SeqsUpTo(S, n - 1)
         IN  shorter \cup {Append(s, x) : s \in {t \in shorter : Len(t) = n - 1}, x \in S}

Range(s) == {s[i] : i \in DOMAIN s}

\* len(w)
WordLen(w) ==
    CASE w \in {"hr", "IT", "is"} -> 2
      [] w \in {"for"} -> 3
      [] w \in {"Show", "what", "find", "look", "item"} -> 4
      [] w \in {"about", "'faq'"} -> 5
      [] w \in {"policy"} -> 6
      [] w \in {"install"} -> 7
      [] w \in {"policyholder"} -> 12
      [] OTHER -> 3

\* w is a run of [A-Za-z0-9]
AlnumWord(w) == w # "'faq'"

\* the text between the quotes of a quoted word
Unquoted(w) == IF w = "'faq'" THEN "faq" ELSE w

\* the keywords of the extractor that are substrings of w.lower()
substrings_of(w) ==
    CASE Lower(w) = "show" -> {"show"}
      [] Lower(w) = "install" -> {"all"}
      [] Lower(w) = "about" -> {"about"}
      [] Lower(w) = "find" -> {"find"}
      [] Lower(w) = "policy" -> {"policy"}
      [] Lower(w) = "policyholder" -> {"policy"}
      [] Lower(w) = "what" -> {"what"}
      [] Lower(w) = "is" -> {"is"}
      [] Lower(w) = "look" -> {"look"}
      [] Lower(w) = "for" -> {"for"}
      [] Lower(w) = "hr" -> {"hr"}
      [] Lower(w) = "it" -> {"it"}
      [] Lower(w) = "item" -> {"it"}
      [] OTHER -> {}

\* w.lower().startswith(x), w.lower().endswith(x), on the strings used
starts_with(w, x) ==
    \/ Lower(w) = x
    \/ (Lower(w) = "policyholder" /\ x = "policy")
    \/ (Lower(w) = "item" /\ x = "it")
ends_with(w, x) == Lower(w) = x

\* list(dict.fromkeys(xs)): first occurrences, in order
RECURSIVE dict_fromkeys(_)
dict_fromkeys(xs) ==
    IF xs = <<>> THEN <<>>
    ELSE LET front == dict_fromkeys(SubSeq(xs, 1, Len(xs) - 1))
             last == xs[Len(xs)]
         IN  IF last \in Range(front) THEN front ELSE Append(front, last)

SetMax(S) == CHOOSE x \in S : \A y \in S : y <= x
SetMin(S) == CHOOSE x \in S : \A y \in S : x <= y

RECURSIVE Sum(_)
Sum(s) == IF s = <<>> THEN 0 ELSE s[1] + Sum(Tail(s))

TakeN(s, n) == SubSeq(s, 1, IF Len(s) < n THEN Len(s) ELSE n)

\* ascending order of a finite set of integers
RECURSIVE Sorted(_)
Sorted(S) ==
    IF S = {} THEN <<>>
    ELSE LET m == CHOOSE x \in S : \A y \in S : x <= y
         IN  <<m>> \o Sorted(S \ {m})

-----------------------------------------------------------------------------
(* Values *)

\* document_path: the number of the upload it names, 0 for none
NoRow == [exists |-> FALSE, type |-> None, description |-> "", document_path |-> 0]
Rows == {NoRow} \cup [exists : {TRUE}, type : StoredTypes, description : {"text"},
                      document_path : {0}]

\* a chunk: its Chroma id is policy_<policy_id>_chunk_<chunk_index>; doc is the
\* upload it was cut from (history, not stored by the code)
Chunk(pid, i, t, d) == [policy_id |-> pid, chunk_index |-> i, policy_type |-> t, doc |-> d]

Txt(k, n, a) == [kind |-> k, n |-> n, arg |-> a]

Questions == SeqsUpTo(Words, MaxQLen)

\* texts the Completion Provider may return (success), stripped
LlmTexts == {"Employees get 20 days of leave.",
             "I cannot find this in the provided context",
             ""}
\* str(e) of a provider exception, as _answer_sync formats it
LlmErrors == {"LLM error: deadline exceeded",
              "LLM error: model is not available"}

\* no call of the synthesis
NoSynth == [documents |-> <<>>, metadatas |-> <<>>, called |-> FALSE, bullets |-> <<>>,
            result_empty |-> FALSE]

\* no call of the chunker
NoChunker == [pages |-> <<>>, chunk_size |-> 0, called |-> FALSE, raised |-> FALSE,
              chunks |-> <<>>]

NoValidation == [is_valid |-> FALSE, extracted_policy_names |-> <<>>,
                 extracted_policy_types |-> <<>>, intent |-> None, confidence |-> None]
NoReq == [question |-> <<>>, policy_type |-> None, policy_type_filter |-> None,
          validation |-> NoValidation, effective_type_filter |-> None,
          embedding |-> 0, docs |-> <<>>, fallback_reason |-> None]
NoEnv == [embed |-> Unset, init |-> Unset, query |-> Unset,
          lookup |-> Unset, list |-> Unset]
NoCalls == [extract |-> 0, embed |-> 0, search |-> 0, lookup |-> 0, list |-> 0,
            llm |-> 0, search_filter |-> Unset, list_filter |-> Unset,
            post_filter |-> Unset, llm_text |-> Unset]
NoResp == [http |-> 0, response |-> Txt(None, 0, ""), relevant_policies |-> <<>>,
           context_used |-> Txt(None, 0, ""), success |-> FALSE,
           error |-> FALSE, validation_info |-> NoValidation]

-----------------------------------------------------------------------------
(* Program constants *)

N_RESULTS == 10         \* n_results=10 of the chat search
FALLBACK_LIMIT == 5     \* limit=5 of the fallback catalog query
EMBEDDING_DIM == 768    \* dimension VectorDBService.search accepts

-----------------------------------------------------------------------------
(* routes/policy_assistant_routes.py: chat_with_policy_assistant *)

valid_types == {"all", "leave", "hr", "it", "customer"}

\* policy_type.strip().lower()
normalize_policy_type(raw) == Lower(Strip(raw))

\* "Pass None if 'all'"
effective_type(policy_type) == IF policy_type = "all" THEN None ELSE policy_type

\* faulty variant: the query parameter is not validated
route_reject_unvalidated(policy_type, message) ==
    IF message = <<>> THEN 422 ELSE 0

\* the status the route answers with before it calls the service (0: it calls)
route_reject(policy_type, message) ==
    IF policy_type \notin valid_types THEN 400
    ELSE IF message = <<>> THEN 422
    ELSE 0

-----------------------------------------------------------------------------
(* services/policy_assistant_service.py *)

\* faulty variant: a category is matched inside a longer word too
extracted_policy_types_substring(user_prompt) ==
    LET hit(w) == substrings_of(w) \cap PolicyType
        type_matches == SelectSeq(user_prompt, LAMBDA w : hit(w) # {})
        extracted_types == [i \in DOMAIN type_matches |->
                               CHOOSE t \in hit(type_matches[i]) : TRUE]
    IN  dict_fromkeys(extracted_types)

\* faulty variant: matches are not de-duplicated
extracted_policy_types_no_dedupe(user_prompt) ==
    LET type_matches == SelectSeq(user_prompt, LAMBDA w : Lower(w) \in PolicyType)
    IN  [i \in DOMAIN type_matches |-> Lower(type_matches[i])]

\* re.findall(r"\b(hr|it|leave|customer)\b", prompt, IGNORECASE), lower-cased,
\* de-duplicated: a match is a whole word of the question
extracted_policy_types(user_prompt) ==
    LET type_matches == SelectSeq(user_prompt, LAMBDA w : Lower(w) \in PolicyType)
        extracted_types == [i \in DOMAIN type_matches |-> Lower(type_matches[i])]
    IN  dict_fromkeys(extracted_types)

\* len(name) of a name given as its words
text_len(name) == IF name = <<>> THEN 0
                  ELSE Sum([i \in DOMAIN name |-> WordLen(name[i])]) + Len(name) - 1

\* the last word of the run of [A-Za-z0-9] words that starts at word i
run_end(user_prompt, i) ==
    SetMax({k \in i..Len(user_prompt) : \A l \in i..k : AlnumWord(user_prompt[l])})

\* re.findall(r'policy\s+([A-Za-z0-9\s]+)', ...) from word i on: the words
\* that follow a "policy", to the end of their run
RECURSIVE names_after_policy(_, _)
names_after_policy(user_prompt, i) ==
    LET at == {k \in i..(Len(user_prompt) - 1) :
                 /\ ends_with(user_prompt[k], "policy")
                 /\ AlnumWord(user_prompt[k + 1])}
    IN  IF at = {} THEN <<>>
        ELSE LET k == SetMin(at)
                 j == run_end(user_prompt, k + 1)
             IN  <<SubSeq(user_prompt, k + 1, j)>> \o names_after_policy(user_prompt, j + 1)

\* re.findall(r'([A-Za-z0-9\s]+)\s+policy', ...) from word i on: in each run
\* the words before its last "policy"
RECURSIVE names_before_policy(_, _)
names_before_policy(user_prompt, i) ==
    IF i > Len(user_prompt) THEN <<>>
    ELSE IF ~AlnumWord(user_prompt[i]) THEN names_before_policy(user_prompt, i + 1)
    ELSE LET b == run_end(user_prompt, i)
             at == {k \in (i + 1)..b : starts_with(user_prompt[k], "policy")}
         IN  (IF at = {} THEN <<>> ELSE <<SubSeq(user_prompt, i, SetMax(at) - 1)>>)
                \o names_before_policy(user_prompt, b + 1)

\* re.findall(r"'([^']+)'", ...): the quoted words (no word holds a double quote)
names_quoted(user_prompt) ==
    LET quoted == SelectSeq(user_prompt, LAMBDA w : ~AlnumWord(w))
    IN  [i \in DOMAIN quoted |-> <<Unquoted(quoted[i])>>]

\* lines 188-198: the matches longer than 2 characters, de-duplicated
extracted_policy_names(user_prompt) ==
    LET matches == names_after_policy(user_prompt, 1)
                     \o names_before_policy(user_prompt, 1)
                     \o names_quoted(user_prompt)
    IN  dict_fromkeys(SelectSeq(matches, LAMBDA n : text_len(n) > 2))

\* word in lower, for the keywords of lines 207-217
contains(user_prompt, word) ==
    LET phrase(a, b) == \E i \in 1..(Len(user_prompt) - 1) :
                            /\ ends_with(user_prompt[i], a)
                            /\ starts_with(user_prompt[i + 1], b)
    IN  CASE word = "what is" -> phrase("what", "is")
          [] word = "look for" -> phrase("look", "for")
          [] OTHER -> \E i \in DOMAIN user_prompt : word \in substrings_of(user_prompt[i])

any_in(user_prompt, words) == \E word \in words : contains(user_prompt, word)

\* faulty variant: the groups are tried in the opposite order
intent_of_reversed(user_prompt) ==
    IF any_in(user_prompt, {"find", "search", "look for"}) THEN "search_policies"
    ELSE IF any_in(user_prompt, {"details", "about", "what is", "explain"})
    THEN "get_policy_details"
    ELSE IF any_in(user_prompt, {"show", "list", "all", "get"}) THEN "list_policies"
    ELSE "general_query"

\* lines 205-212
intent_of(user_prompt) ==
    IF any_in(user_prompt, {"show", "list", "all", "get"}) THEN "list_policies"
    ELSE IF any_in(user_prompt, {"details", "about", "what is", "explain"})
    THEN "get_policy_details"
    ELSE IF any_in(user_prompt, {"find", "search", "look for"}) THEN "search_policies"
    ELSE "general_query"

\* faulty variant: extracted names do not count
confidence_of_types_only(user_prompt, extracted_names, extracted_types) ==
    IF extracted_types # <<>> THEN "high"
    ELSE IF contains(user_prompt, "policy") THEN "medium"
    ELSE "low"

\* lines 214-220
confidence_of(user_prompt, extracted_names, extracted_types) ==
    IF extracted_names # <<>> \/ extracted_types # <<>> THEN "high"
    ELSE IF contains(user_prompt, "policy") THEN "medium"
    ELSE "low"

\* raised: something in the try block raised (the prompt is not a str); the
\* route hands the service a str, on which nothing in the block raises
_validate_and_extract_policy_info(user_prompt, raised) ==
    IF raised
    THEN [is_valid |-> TRUE, extracted_policy_names |-> <<>>,
          extracted_policy_types |-> <<>>, intent |-> "general_query",
          confidence |-> "low"]
    ELSE LET extracted_names == extracted_policy_names(user_prompt)
             extracted_types == extracted_policy_types(user_prompt)
         IN  [is_valid |-> TRUE, extracted_policy_names |-> extracted_names,
              extracted_policy_types |-> extracted_types,
              intent |-> intent_of(user_prompt),
              confidence |-> confidence_of(user_prompt, extracted_names, extracted_types)]

\* faulty variant: a single detected category overrides the requested one
effective_type_filter_detected_first(policy_type_filter, detected_types) ==
    IF Len(detected_types) = 1 THEN detected_types[1]
    ELSE IF policy_type_filter \notin {None, ""} /\ policy_type_filter # "all"
    THEN policy_type_filter ELSE None

\* lines 42-45
effective_type_filter(policy_type_filter, detected_types) ==
    LET explicit == IF policy_type_filter \notin {None, ""} /\ policy_type_filter # "all"
                    THEN policy_type_filter ELSE None
    IN  IF explicit = None /\ Len(detected_types) = 1
        THEN detected_types[1] ELSE explicit

\* faulty variant: the type filter is not applied
get_policies_unfiltered(cat, policy_type, limit, outcome) ==
    IF outcome = "error"
    THEN [raised |-> TRUE, rows |-> <<>>]
    ELSE [raised |-> FALSE, rows |-> TakeN(Sorted({p \in DOMAIN cat : cat[p].exists}), limit)]

\* faulty variant: the limit is not applied
get_policies_unlimited(cat, policy_type, limit, outcome) ==
    LET filtered == policy_type \notin {None, ""}
        bad == filtered /\ Lower(policy_type) \notin PolicyType
        ids == {p \in DOMAIN cat : /\ cat[p].exists
                                   /\ (filtered => cat[p].type = Lower(policy_type))}
    IN  IF outcome = "error" \/ bad
        THEN [raised |-> TRUE, rows |-> <<>>]
        ELSE [raised |-> FALSE, rows |-> Sorted(ids)]

\* PolicyService.get_policies(db, policy_type=..., limit=...): rows in id order;
\* raised = TRUE is the HTTPException it raises on any error
get_policies(cat, policy_type, limit, outcome) ==
    LET filtered == policy_type \notin {None, ""}
        bad == filtered /\ Lower(policy_type) \notin PolicyType
        ids == {p \in DOMAIN cat : /\ cat[p].exists
                                   /\ (filtered => cat[p].type = Lower(policy_type))}
    IN  IF outcome = "error" \/ bad
        THEN [raised |-> TRUE, rows |-> <<>>]
        ELSE [raised |-> FALSE, rows |-> TakeN(Sorted(ids), limit)]

\* PolicyService.get_policy(db, policy_id)
get_policy(cat, policy_id, outcome) ==
    IF outcome = "error" THEN [raised |-> TRUE, row |-> NoRow]
    ELSE [raised |-> FALSE, row |-> cat[policy_id]]

\* _generate_fallback_response: never raises
\* faulty variant: no text when the catalog query raises
_generate_fallback_response_silent(cat, policy_type_filter, outcome) ==
    LET q == get_policies(cat, policy_type_filter, FALLBACK_LIMIT, outcome)
        named == IF policy_type_filter \in {None, ""} THEN "" ELSE policy_type_filter
    IN  IF q.raised
        THEN [response |-> Txt("", 0, ""), policies |-> <<>>]
        ELSE IF q.rows # <<>>
        THEN [response |-> Txt("I found policies that might be relevant.", Len(q.rows), named),
              policies |-> q.rows]
        ELSE [response |-> Txt("I couldn't find any policies matching your query.", 0, named),
              policies |-> <<>>]

_generate_fallback_response(cat, policy_type_filter, outcome) ==
    LET q == get_policies(cat, policy_type_filter, FALLBACK_LIMIT, outcome)
        named == IF policy_type_filter \in {None, ""} THEN "" ELSE policy_type_filter
    IN  IF q.raised
        THEN [response |-> Txt("I couldn't retrieve policy information at this time.", 0, ""),
              policies |-> <<>>]
        ELSE IF q.rows # <<>>
        THEN [response |-> Txt("I found policies that might be relevant.", Len(q.rows), named),
              policies |-> q.rows]
        ELSE [response |-> Txt("I couldn't find any policies matching your query.", 0, named),
              policies |-> <<>>]

\* _NO_ANSWER_PAT.search(text), on the texts of the model
matches_no_answer_pat(text) ==
    text \in {"I cannot find this in the provided context",
              "LLM error: model is not available"}

_looks_like_no_answer(text) == IF text = "" THEN TRUE ELSE matches_no_answer_pat(text)

\* faulty variant: a bullet for every chunk
_synthesize_from_chunks_all(flat_docs) ==
    IF flat_docs = <<>> THEN Txt("", 0, "")
    ELSE Txt("Here's what the policy content indicates", Len(flat_docs), "")

\* _synthesize_from_chunks: one bullet for each of the first 3 chunks
_synthesize_from_chunks(flat_docs) ==
    IF flat_docs = <<>> THEN Txt("", 0, "")
    ELSE Txt("Here's what the policy content indicates", Len(TakeN(flat_docs, 3)), "")

-----------------------------------------------------------------------------
(* services/vector_db_service.py *)

NoClient == [client |-> FALSE, collection |-> FALSE]

\* _initialize_client: outcome "ok", "no_client" (PersistentClient raised) or
\* "no_collection" (client made, get/create_collection raised)
_initialize_client(v, outcome) ==
    IF v.client THEN v
    ELSE CASE outcome = "ok" -> [client |-> TRUE, collection |-> TRUE]
           [] outcome = "no_collection" -> [client |-> TRUE, collection |-> FALSE]
           [] OTHER -> NoClient

\* collection.query(..., where={"policy_type": ...}): the nearest n_results
\* chunks among those the where-clause keeps
collection_query(idx, n_results, where) ==
    TakeN(SelectSeq(idx, LAMBDA c : where = None \/ c.policy_type = where), n_results)

\* faulty variant: the query removes the chunks it returns
collection_after_query_consumed(idx) == SubSeq(idx, N_RESULTS + 1, Len(idx))

\* the collection after search: collection.query adds and removes nothing
collection_after_query(idx) == idx

\* the catalog after db.query(...).first() or .all(): the session holds no
\* pending change and nothing is committed
catalog_after_query(cat) == cat

\* VectorDBService.search, after _initialize_client; every failure gives the
\* empty result, nothing is raised.  Outcome "unfiltered" is a collection
\* that does not apply the where-clause, which the caller guards against.
search(v, idx, query_embedding, n_results, policy_type_filter, outcome) ==
    IF ~v.collection THEN <<>>
    ELSE IF query_embedding # EMBEDDING_DIM THEN <<>>
    ELSE IF outcome = "error" THEN <<>>
    ELSE IF outcome = "unfiltered" THEN collection_query(idx, n_results, None)
    ELSE collection_query(idx, n_results,
                          IF policy_type_filter \in {None, ""} THEN None
                          ELSE Lower(Strip(policy_type_filter)))

-----------------------------------------------------------------------------
(* get_policy_chat_response, step by step *)

\* faulty variant: the retrieved chunks are not re-filtered
post_filter_off(metas, effective) == metas

\* lines 85-91: the defensive re-filter of the retrieved chunks
post_filter(metas, effective) ==
    IF effective \in {None, ""} THEN metas
    ELSE SelectSeq(metas, LAMBDA m : _norm(m.policy_type) = _norm(effective))

\* faulty variant: the ids are not de-duplicated
rel_ids_with_duplicates(metas) == [i \in DOMAIN metas |-> metas[i].policy_id]

\* lines 94-98: list({policy ids}); CPython iterates a set of small ints ascending
rel_ids(metas) == Sorted({metas[i].policy_id : i \in DOMAIN metas})

\* lines 100-122: the ids that resolve, in rel_ids order
relevant_policies(cat, ids) == SelectSeq(ids, LAMBDA p : cat[p].exists)

context_texts(cat, ids) ==
    SelectSeq(ids, LAMBDA p : cat[p].exists /\ cat[p].description # "")

\* faulty variant: the Completion Provider is asked whatever the context
has_context_always(texts, flat_docs) == TRUE

\* lines 129-131: "\n\n".join(context_texts + flat_docs).strip() is not empty;
\* description lines and chunk texts are never blank
has_context(texts, flat_docs) == Len(texts) + Len(flat_docs) > 0

\* lines 52-58, 70-76, 158-164: a return through the fallback
fallback_return(fallback, context_used, validation) ==
    [http |-> 200, response |-> fallback.response,
     relevant_policies |-> fallback.policies,
     context_used |-> Txt(context_used, 0, ""), success |-> TRUE,
     error |-> FALSE, validation_info |-> validation]

\* _answer_sync: what the Completion Provider call comes back as
_answer_sync(ok, text) == [success |-> ok, response |-> text]

\* faulty variant: the relevant policies are dropped when the provider fails
llm_return_drops_policies(llm_payload, flat_docs, relevant, effective, validation) ==
    [http |-> 200, response |-> Txt("provider text", 0, llm_payload.response),
     relevant_policies |-> IF llm_payload.success THEN relevant ELSE <<>>,
     context_used |-> Txt("Found relevant policy sections", Len(flat_docs),
                          IF effective \in {None, ""} THEN "" ELSE effective),
     success |-> llm_payload.success,
     error |-> FALSE, validation_info |-> validation]

\* faulty variant: an empty provider text is returned as it is
llm_return_no_substitute(llm_payload, flat_docs, relevant, effective, validation) ==
    LET answer_text == llm_payload.response
        synthesized == _synthesize_from_chunks(flat_docs)
        use_synth == /\ _looks_like_no_answer(answer_text)
                     /\ flat_docs # <<>>
                     /\ synthesized.kind # ""
    IN  [http |-> 200,
         response |-> IF use_synth THEN synthesized ELSE Txt("provider text", 0, answer_text),
         relevant_policies |-> relevant,
         context_used |-> Txt("Found relevant policy sections", Len(flat_docs),
                              IF effective \in {None, ""} THEN "" ELSE effective),
         success |-> IF use_synth THEN TRUE ELSE llm_payload.success,
         error |-> FALSE, validation_info |-> validation]

\* lines 138-154
llm_return(llm_payload, flat_docs, relevant, effective, validation) ==
    LET answer_text == llm_payload.response
        synthesized == _synthesize_from_chunks(flat_docs)
        use_synth == /\ _looks_like_no_answer(answer_text)
                     /\ flat_docs # <<>>
                     /\ synthesized.kind # ""
        final == IF use_synth THEN synthesized
                 ELSE IF answer_text = ""
                 THEN Txt("I couldn't find an answer in the current policies.", 0, "")
                 ELSE Txt("provider text", 0, answer_text)
    IN  [http |-> 200, response |-> final, relevant_policies |-> relevant,
         context_used |-> Txt("Found relevant policy sections", Len(flat_docs),
                              IF effective \in {None, ""} THEN "" ELSE effective),
         success |-> IF use_synth THEN TRUE ELSE llm_payload.success,
         error |-> FALSE, validation_info |-> validation]

\* faulty variant: the handler re-raises, and the route answers 500
catch_all_reraised ==
    [http |-> 500, response |-> Txt(None, 0, ""),
     relevant_policies |-> <<>>, context_used |-> Txt(None, 0, ""),
     success |-> FALSE, error |-> TRUE, validation_info |-> NoValidation]

\* lines 166-174: the top-level handler
catch_all ==
    [http |-> 200, response |-> Txt("I apologize, but I encountered an error", 0, ""),
     relevant_policies |-> <<>>, context_used |-> Txt(None, 0, ""),
     success |-> FALSE, error |-> TRUE, validation_info |-> NoValidation]

\* what a collaborator does: decided when first consulted, the same when the
\* request is issued again
Outcomes(current, consulted, all) ==
    IF ~consulted THEN {current}
    ELSE IF round = 2 /\ current # Unset THEN {current}
    ELSE all

\* POST /chat: validation of the query parameter and of the message
ChatRoute(message, raw) ==
    /\ pc = "idle"
    /\ LET policy_type == normalize_policy_type(raw)
           status == route_reject(policy_type, message)
       IN  /\ req' = [NoReq EXCEPT !.question = message, !.policy_type = policy_type,
                        !.policy_type_filter =
                            IF status = 0 THEN effective_type(policy_type) ELSE None]
           /\ resp' = [NoResp EXCEPT !.http = status]
           /\ pc' = IF status = 0 THEN "validate" ELSE "done"
    /\ env' = NoEnv
    /\ calls' = NoCalls
    /\ round' = 1
    /\ prevIds' = {}
    /\ UNCHANGED <<synth, chunker, ingestVars, catalog, index, vdb>>

\* the caller issues the answered request once more
Repeat ==
    /\ pc = "done"
    /\ round = 1
    /\ resp.http = 200
    /\ prevIds' = Range(resp.relevant_policies)
    /\ round' = 2
    /\ req' = [NoReq EXCEPT !.question = req.question, !.policy_type = req.policy_type,
                 !.policy_type_filter = req.policy_type_filter]
    /\ resp' = NoResp
    /\ calls' = NoCalls
    /\ pc' = "validate"
    /\ UNCHANGED <<synth, chunker, ingestVars, catalog, index, vdb, env>>

\* Step 1 and lines 42-45
Validate ==
    /\ pc = "validate"
    /\ LET validation == _validate_and_extract_policy_info(req.question, FALSE)
       IN  req' = [req EXCEPT
                     !.validation = validation,
                     !.effective_type_filter =
                         effective_type_filter(req.policy_type_filter,
                                               validation.extracted_policy_types)]
    /\ calls' = [calls EXCEPT !.extract = @ + 1]
    /\ pc' = "embed"
    /\ UNCHANGED <<synth, chunker, ingestVars, catalog, index, vdb, env, resp, round, prevIds>>

\* Step 2: the Embedding Provider
Embed ==
    /\ pc = "embed"
    /\ \E o \in Outcomes(env.embed, TRUE, {"ok", "short", "fail"}) :
        /\ env' = [env EXCEPT !.embed = o]
        /\ req' = [req EXCEPT
                     !.embedding = IF o = "ok" THEN EMBEDDING_DIM ELSE 0,
                     !.fallback_reason = "Embedding failed; returned fallback results"]
        /\ pc' = IF o = "fail" THEN "fallback" ELSE "search"
    /\ calls' = [calls EXCEPT !.embed = @ + 1]
    /\ UNCHANGED <<synth, chunker, ingestVars, catalog, index, vdb, resp, round, prevIds>>

\* Step 3: VectorDBService.search on the assistant's instance
Search ==
    /\ pc = "search"
    /\ \E io \in Outcomes(env.init, ~vdb.assistant.client, {"ok", "no_client", "no_collection"}) :
        LET v == _initialize_client(vdb.assistant, io)
        IN  \E qo \in Outcomes(env.query, v.collection /\ req.embedding = EMBEDDING_DIM,
                               IF req.effective_type_filter \in {None, ""}
                               THEN {"ok", "error"}
                               ELSE {"ok", "error", "unfiltered"}) :
              /\ env' = [env EXCEPT !.init = io, !.query = qo]
              /\ vdb' = [vdb EXCEPT !.assistant = v]
              /\ req' = [req EXCEPT !.docs = search(v, index, req.embedding, N_RESULTS,
                                                    req.effective_type_filter, qo)]
    /\ calls' = [calls EXCEPT !.search = @ + 1,
                              !.search_filter = req.effective_type_filter]
    /\ index' = collection_after_query(index)
    /\ pc' = "collect"
    /\ UNCHANGED <<synth, chunker, ingestVars, catalog, resp, round, prevIds>>

\* Step 4: re-filter, catalog lookups, context; then the Completion Provider is
\* called, or the request falls back, or a lookup raises
Collect ==
    /\ pc = "collect"
    /\ LET metas == post_filter(req.docs, req.effective_type_filter)
           ids == rel_ids(metas)
       IN  \E lo \in Outcomes(env.lookup, ids # <<>>, {"ok", "error"}) :
             LET raised == ids # <<>> /\ get_policy(catalog, ids[1], lo).raised
                 context == has_context(context_texts(catalog, ids), metas)
             IN  /\ env' = [env EXCEPT !.lookup = lo]
                 /\ req' = [req EXCEPT
                              !.docs = metas,
                              !.fallback_reason =
                                  "No matching policy sections after filtering; used fallback."]
                 /\ calls' = [calls EXCEPT !.lookup = @ + Len(ids),
                                           !.post_filter = req.effective_type_filter]
                 /\ pc' = IF raised THEN "except"
                          ELSE IF context THEN "llm" ELSE "fallback"
    /\ catalog' = catalog_after_query(catalog)
    /\ UNCHANGED <<synth, chunker, ingestVars, index, vdb, resp, round, prevIds>>

\* Step 5: the Completion Provider answers, refuses or fails
Complete ==
    /\ pc = "llm"
    /\ \E payload \in {_answer_sync(TRUE, t) : t \in LlmTexts}
                      \cup {_answer_sync(FALSE, t) : t \in LlmErrors} :
        /\ resp' = llm_return(payload, req.docs,
                              relevant_policies(catalog, rel_ids(req.docs)),
                              req.effective_type_filter, req.validation)
        /\ calls' = [calls EXCEPT !.llm = @ + 1, !.llm_text = payload.response]
    /\ pc' = "done"
    /\ UNCHANGED <<synth, chunker, ingestVars, catalog, index, vdb, req, env, round, prevIds>>

\* the three fallback returns
Fallback ==
    /\ pc = "fallback"
    /\ \E o \in Outcomes(env.list, TRUE, {"ok", "error"}) :
        /\ env' = [env EXCEPT !.list = o]
        /\ resp' = fallback_return(
                       _generate_fallback_response(catalog, req.effective_type_filter, o),
                       req.fallback_reason, req.validation)
    /\ calls' = [calls EXCEPT !.list = @ + 1, !.list_filter = req.effective_type_filter]
    /\ catalog' = catalog_after_query(catalog)
    /\ pc' = "done"
    /\ UNCHANGED <<synth, chunker, ingestVars, index, vdb, req, round, prevIds>>

\* except Exception at the top of get_policy_chat_response
Except ==
    /\ pc = "except"
    /\ resp' = catch_all
    /\ pc' = "done"
    /\ UNCHANGED <<synth, chunker, ingestVars, catalog, index, vdb, req, env, calls, round, prevIds>>

-----------------------------------------------------------------------------
(* services/policy_service.py: handlers of the catalog routes *)

Handlers == 1..NumHandlers

\* a handler between requests; status is the HTTP status of its last request
Idle(status) == [pc |-> "idle", op |-> None, pid |-> 0, type |-> None, doc |-> 0,
                 todo |-> 0, good |-> 0, flushed |-> FALSE, loaded |-> FALSE,
                 snap |-> None, status |-> status]


\* id of an inserted row: SQLite gives an INTEGER PRIMARY KEY max(id) + 1
new_id(cat) ==
    LET used == {p \in DOMAIN cat : cat[p].exists}
    IN  IF used = {} THEN 1 ELSE SetMax(used) + 1

\* VectorDBService.delete_document, after _initialize_client: it returns True
\* on every path
delete_document(v, idx, policy_id, outcome) ==
    IF ~v.collection THEN [returned |-> TRUE, index |-> idx]
    ELSE IF outcome = "error" THEN [returned |-> TRUE, index |-> idx]
    ELSE [returned |-> TRUE,
          index |-> SelectSeq(idx, LAMBDA c : c.policy_id # policy_id)]

\* VectorDBService.add_document, after _initialize_client: n chunks with ids
\* policy_<id>_chunk_0 .. n-1; Chroma keeps a chunk whose id it already holds
add_document(v, idx, n, policy_id, policy_type, doc, outcome) ==
    LET held == {idx[i].chunk_index : i \in {j \in DOMAIN idx : idx[j].policy_id = policy_id}}
        fresh == SelectSeq([i \in 1..n |-> Chunk(policy_id, i - 1, Lower(Strip(policy_type)), doc)],
                           LAMBDA c : c.chunk_index \notin held)
    IN  IF ~v.collection THEN [returned |-> FALSE, index |-> idx]
        ELSE IF outcome = "error" THEN [returned |-> FALSE, index |-> idx]
        ELSE [returned |-> TRUE, index |-> idx \o fresh]

\* routes/policy_routes.py: the status of PUT /{policy_id}; the 404 raised
\* inside the try block is caught by except Exception and becomes a 500
update_status(policy_found) == IF policy_found THEN 200 ELSE 500

\* DELETE /{policy_id}
delete_status(policy_found, committed) ==
    IF ~policy_found THEN 404 ELSE IF committed THEN 200 ELSE 500

\* the first free handler takes the next request
Free(h) ==
    /\ handlers[h].pc = "idle"
    /\ \A g \in Handlers : g < h => handlers[g].pc # "idle"
    /\ ops < MaxOps

\* faulty variant: a create whose document was not ingested is rolled back
Finished_rolled_back(h, cat, pending) ==
    LET me == handlers[h]
    IN  [cat |-> [cat EXCEPT ![me.pid] = NoRow], handler |-> Idle(500)]

\* the handler has left _process_policy_document: create_policy returns the
\* row (the route reads it back), update_policy commits what is pending
Finished(h, cat, pending) ==
    LET me == handlers[h]
        row == cat[me.pid]
    IN  IF me.op = "create"
        THEN [cat |-> cat, handler |-> Idle(IF row.exists THEN 201 ELSE 500)]
        ELSE [cat |-> IF row.exists /\ pending /\ me.type # None
                      THEN [cat EXCEPT ![me.pid].type = me.type] ELSE cat,
              handler |-> Idle(update_status(row.exists))]

\* PolicyService.create_policy up to the first await of _process_policy_document
CreatePolicy(h, type, n) ==
    /\ Free(h)
    /\ new_id(catalog) \in PolicyIds
    /\ LET id == new_id(catalog)
       IN  /\ catalog' = [catalog EXCEPT ![id] =
                            [exists |-> TRUE, type |-> type, description |-> "text",
                             document_path |-> 0]]
           /\ handlers' = [handlers EXCEPT ![h] =
                            IF n = 0 THEN Idle(201)
                            ELSE [pc |-> "read", op |-> "create", pid |-> id,
                                  type |-> None, doc |-> nextDoc, todo |-> n, good |-> 0,
                                  flushed |-> FALSE, loaded |-> TRUE, snap |-> type,
                                  status |-> 0]]
    /\ nextDoc' = IF n = 0 THEN nextDoc ELSE nextDoc + 1
    /\ ops' = ops + 1
    /\ UNCHANGED <<index, vdb, deletedAck, pc, req, env, resp, calls, round, prevIds, chunker, synth>>

\* PolicyService.update_policy up to its first await that suspends: without a
\* file the whole update; with a file the old chunks are deleted first
UpdatePolicy(h, policy_id, type, n) ==
    /\ Free(h)
    /\ ops' = ops + 1
    /\ IF ~catalog[policy_id].exists
       THEN /\ handlers' = [handlers EXCEPT ![h] = Idle(update_status(FALSE))]
            /\ UNCHANGED <<catalog, index, vdb, deletedAck, nextDoc>>
       ELSE IF n = 0
       THEN /\ catalog' = IF type = None THEN catalog
                          ELSE [catalog EXCEPT ![policy_id].type = type]
            /\ handlers' = [handlers EXCEPT ![h] = Idle(update_status(TRUE))]
            /\ UNCHANGED <<index, vdb, deletedAck, nextDoc>>
       ELSE \E io \in {"ok", "no_client", "no_collection"}, o \in {"ok", "error"} :
              LET v == _initialize_client(vdb.policy, io)
                  d == delete_document(v, index, policy_id, o)
              IN  /\ vdb' = [vdb EXCEPT !.policy = v]
                  /\ index' = d.index
                  /\ deletedAck' = IF d.returned THEN deletedAck \cup {policy_id}
                                   ELSE deletedAck
                  /\ handlers' = [handlers EXCEPT ![h] =
                                    [pc |-> "read", op |-> "update", pid |-> policy_id,
                                     type |-> type, doc |-> nextDoc, todo |-> n, good |-> 0,
                                     flushed |-> FALSE, loaded |-> TRUE,
                                     snap |-> IF type = None THEN catalog[policy_id].type
                                              ELSE type,
                                     status |-> 0]]
                  /\ nextDoc' = nextDoc + 1
                  /\ UNCHANGED catalog
    /\ UNCHANGED <<pc, req, env, resp, calls, round, prevIds, chunker, synth>>

\* PolicyService.delete_policy: nothing in it suspends
DeletePolicy(h, policy_id) ==
    /\ Free(h)
    /\ ops' = ops + 1
    /\ IF ~catalog[policy_id].exists
       THEN /\ handlers' = [handlers EXCEPT ![h] = Idle(delete_status(FALSE, FALSE))]
            /\ UNCHANGED <<catalog, index, vdb, deletedAck>>
       ELSE \E io \in {"ok", "no_client", "no_collection"}, o \in {"ok", "error"},
               committed \in BOOLEAN :
              LET v == _initialize_client(vdb.policy, io)
                  d == delete_document(v, index, policy_id, o)
              IN  /\ vdb' = [vdb EXCEPT !.policy = v]
                  /\ index' = d.index
                  /\ deletedAck' = IF d.returned THEN deletedAck \cup {policy_id}
                                   ELSE deletedAck
                  /\ catalog' = IF committed THEN [catalog EXCEPT ![policy_id] = NoRow]
                                ELSE catalog
                  /\ handlers' = [handlers EXCEPT ![h] =
                                    Idle(delete_status(TRUE, committed))]
    /\ UNCHANGED <<nextDoc, pc, req, env, resp, calls, round, prevIds, chunker, synth>>

\* _process_policy_document, lines 66-77: the upload is read and written, the
\* path committed (which expires the row object); the embedding loop starts
AfterRead(h, written) ==
    LET me == handlers[h]
        row == catalog[me.pid]
    IN  /\ me.pc = "read"
        /\ IF written /\ row.exists
           THEN /\ catalog' = [catalog EXCEPT ![me.pid] =
                                [row EXCEPT !.document_path = me.doc,
                                            !.type = IF me.type = None THEN @ ELSE me.type]]
                /\ handlers' = [handlers EXCEPT ![h] =
                                 [me EXCEPT !.pc = "embed", !.flushed = TRUE,
                                            !.loaded = FALSE]]
           ELSE LET f == Finished(h, catalog, written = FALSE)
                IN  /\ catalog' = f.cat
                    /\ handlers' = [handlers EXCEPT ![h] = f.handler]
        /\ UNCHANGED <<index, vdb, deletedAck, ops, nextDoc,
                       pc, req, env, resp, calls, round, prevIds, chunker, synth>>

\* lines 81-108: one embedding comes back; after the last one the chunks that
\* were embedded are added.  Reading an expired row object re-reads the row and
\* raises when the row is gone; a loaded row object keeps what it read.
EmbedStep(h, embedded) ==
    LET me == handlers[h]
        row == catalog[me.pid]
        last == me.todo = 1
        reads == ~embedded \/ last
        gone == reads /\ ~me.loaded /\ ~row.exists
        loaded == me.loaded \/ reads
        snap == IF reads /\ ~me.loaded THEN row.type ELSE me.snap
        good == me.good + (IF embedded THEN 1 ELSE 0)
    IN  /\ me.pc = "embed"
        /\ IF gone \/ (last /\ good = 0)
           THEN /\ handlers' = [handlers EXCEPT ![h] = Finished(h, catalog, FALSE).handler]
                /\ UNCHANGED <<index, vdb, deletedAck>>
           ELSE IF ~last
           THEN /\ handlers' = [handlers EXCEPT ![h] =
                                 [me EXCEPT !.todo = @ - 1, !.good = good,
                                            !.loaded = loaded, !.snap = snap]]
                /\ UNCHANGED <<index, vdb, deletedAck>>
           ELSE \E io \in {"ok", "no_client", "no_collection"}, o \in {"ok", "error"} :
                  LET v == _initialize_client(vdb.policy, io)
                      a == add_document(v, index, good, me.pid, snap, me.doc, o)
                  IN  /\ vdb' = [vdb EXCEPT !.policy = v]
                      /\ index' = a.index
                      /\ deletedAck' = IF a.index # index THEN deletedAck \ {me.pid}
                                       ELSE deletedAck
                      /\ handlers' = [handlers EXCEPT ![h] =
                                        Finished(h, catalog, FALSE).handler]
        /\ UNCHANGED <<catalog, ops, nextDoc,
                       pc, req, env, resp, calls, round, prevIds, chunker, synth>>

\* what a search started now on an initialised VectorDBService returns
\* (search does not suspend); any other search returns nothing
SearchNow ==
    search([client |-> TRUE, collection |-> TRUE], index, EMBEDDING_DIM, N_RESULTS,
           None, "ok")

InitIngest ==
    /\ catalog = [p \in PolicyIds |-> NoRow]
    /\ index = <<>>
    /\ vdb = [assistant |-> NoClient, policy |-> NoClient]
    /\ pc = "idle"
    /\ req = NoReq
    /\ env = NoEnv
    /\ resp = NoResp
    /\ calls = NoCalls
    /\ round = 1
    /\ prevIds = {}
    /\ handlers = [h \in Handlers |-> Idle(0)]
    /\ deletedAck = {}
    /\ ops = 0
    /\ nextDoc = 1
    /\ chunker = NoChunker
    /\ synth = NoSynth

NextIngest ==
    \/ \E h \in Handlers, t \in StoredTypes, n \in 0..MaxDocChunks : CreatePolicy(h, t, n)
    \/ \E h \in Handlers, p \in PolicyIds, t \in StoredTypes \cup {None},
          n \in 0..MaxDocChunks : UpdatePolicy(h, p, t, n)
    \/ \E h \in Handlers, p \in PolicyIds : DeletePolicy(h, p)
    \/ \E h \in Handlers, written \in BOOLEAN : AfterRead(h, written)
    \/ \E h \in Handlers, embedded \in BOOLEAN : EmbedStep(h, embedded)

SpecIngest == InitIngest /\ [][NextIngest]_vars

\* a handler resumes after an await: the upload has been read, an embedding
\* has come back
HandlerStep ==
    \E h \in Handlers :
        \/ \E written \in BOOLEAN : AfterRead(h, written)
        \/ \E embedded \in BOOLEAN : EmbedStep(h, embedded)

\* the event loop resumes every handler whose await has completed; no request
\* has to arrive
SpecIngestLive == InitIngest /\ [][NextIngest]_vars /\ WF_vars(HandlerStep)

-----------------------------------------------------------------------------
(* services/llm_service.py: chunk_pdf_content.  A PDF is the sequence of its  *)
(* pages, a page the number of words page.extract_text() gives (0: no text); *)
(* a word is named by its page and its position on the page.                *)

\* range(0, n, step) of Python, as a sequence
\* faulty variant: a start only where a full chunk_size of words follows
RECURSIVE range_from_full_only(_, _, _)
range_from_full_only(i, n, step) ==
    IF i + step > n THEN <<>> ELSE <<i>> \o range_from_full_only(i + step, n, step)

RECURSIVE range_from(_, _, _)
range_from(i, n, step) ==
    IF i >= n THEN <<>> ELSE <<i>> \o range_from(i + step, n, step)

\* text.split() of page p with w words
page_words(p, w) == [k \in 1..w |-> [page |-> p, k |-> k]]

\* words[i:i + chunk_size]
slice(words, i, chunk_size) ==
    SubSeq(words, i + 1, IF i + chunk_size < Len(words) THEN i + chunk_size ELSE Len(words))

\* lines 91-97: the chunks of one page
page_chunks(p, w, chunk_size) ==
    IF w = 0 THEN <<>>
    ELSE LET words == page_words(p, w)
             starts == range_from(0, Len(words), chunk_size)
         IN  [j \in DOMAIN starts |-> slice(words, starts[j], chunk_size)]

\* chunk_pdf_content: the pages' chunks in page order; outcome "error" is
\* PdfReader or extract_text raising, which gives the empty list
RECURSIVE chunk_pdf_content(_, _, _)
chunk_pdf_content(pages, chunk_size, outcome) ==
    IF outcome = "error" THEN <<>>
    ELSE IF pages = <<>> THEN <<>>
    ELSE chunk_pdf_content(SubSeq(pages, 1, Len(pages) - 1), chunk_size, outcome)
            \o page_chunks(Len(pages), pages[Len(pages)], chunk_size)

Documents == SeqsUpTo(0..MaxPageWords, MaxPages)

ChunkPdf(outcome) ==
    /\ ~chunker.called
    /\ chunker' = [chunker EXCEPT
                     !.called = TRUE,
                     !.raised = (outcome = "error"),
                     !.chunks = chunk_pdf_content(chunker.pages, chunker.chunk_size, outcome)]
    /\ UNCHANGED <<catalog, index, vdb, pc, req, env, resp, calls, round, prevIds,
                   ingestVars, synth>>

InitChunk ==
    /\ catalog = [p \in PolicyIds |-> NoRow]
    /\ index = <<>>
    /\ vdb = [assistant |-> NoClient, policy |-> NoClient]
    /\ pc = "idle"
    /\ req = NoReq
    /\ env = NoEnv
    /\ resp = NoResp
    /\ calls = NoCalls
    /\ round = 1
    /\ prevIds = {}
    /\ handlers = [h \in Handlers |-> Idle(0)]
    /\ deletedAck = {}
    /\ ops = 0
    /\ nextDoc = 1
    /\ chunker \in [pages : Documents, chunk_size : 1..MaxChunkSize,
                    called : {FALSE}, raised : {FALSE}, chunks : {<<>>}]
    /\ synth = NoSynth

NextChunk == \E outcome \in {"ok", "error"} : ChunkPdf(outcome)

SpecChunk == InitChunk /\ [][NextChunk]_vars

-----------------------------------------------------------------------------
(* _flatten_docs and _synthesize_from_chunks on a documents list with its     *)
(* parallel metadatas.  A text is named by the entry it stands in and its    *)
(* place there; a metadata value by its field and the entry it belongs to.   *)

Text(i, k) == [entry |-> i, item |-> k]
NoText == Text(0, 0)

Value(field, i) == [field |-> field, of |-> i]
Absent == Value("absent", 0)

\* the entry at place i of a documents list: a str, something that is neither
\* a str nor a list, or a list of a str, a non-str and a str
Entry(kind, i) ==
    CASE kind = "str" -> [kind |-> "str", text |-> Text(i, 0), items |-> <<>>]
      [] kind = "list" ->
            [kind |-> "list", text |-> NoText,
             items |-> <<[kind |-> "str", text |-> Text(i, 1)],
                         [kind |-> "other", text |-> NoText],
                         [kind |-> "str", text |-> Text(i, 2)]>>]
      [] OTHER -> [kind |-> "other", text |-> NoText, items |-> <<>>]

\* the metadata at place i, with the fields that shape names
Meta(shape, i) ==
    [policy_name |-> IF shape = "name_title_id" THEN Value("policy_name", i) ELSE Absent,
     title |-> IF shape \in {"name_title_id", "title_id"} THEN Value("title", i) ELSE Absent,
     policy_id |-> IF shape = "none" THEN Absent ELSE Value("policy_id", i)]

EntryKinds == {"str", "list", "other"}
MetaShapes == {"name_title_id", "title_id", "id", "none"}

\* _flatten_docs
RECURSIVE _flatten_docs(_)
_flatten_docs(docs) ==
    IF docs = <<>> THEN <<>>
    ELSE LET d == Head(docs)
             strs == SelectSeq(d.items, LAMBDA x : x.kind = "str")
         IN  (CASE d.kind = "list" -> [j \in DOMAIN strs |-> strs[j].text]
                [] d.kind = "str" -> <<d.text>>
                [] OTHER -> <<>>)
             \o _flatten_docs(Tail(docs))

\* line 354: meta.get("policy_name") or meta.get("title") or meta.get("policy_id")
title_of(meta) ==
    IF meta.policy_name # Absent THEN meta.policy_name
    ELSE IF meta.title # Absent THEN meta.title
    ELSE meta.policy_id

\* faulty variant: a bullet for every text
_synthesize_bullets_all(documents, metadatas) ==
    LET flat_docs == _flatten_docs(documents)
    IN  [idx \in 1..Len(flat_docs) |->
            [text |-> flat_docs[idx],
             source |-> IF idx <= Len(metadatas) THEN title_of(metadatas[idx]) ELSE Absent]]

\* lines 343-357: the bullets, each the text and its source (Absent: no suffix)
_synthesize_bullets(documents, metadatas) ==
    LET flat_docs == _flatten_docs(documents)
    IN  [idx \in 1..(IF Len(flat_docs) < 3 THEN Len(flat_docs) ELSE 3) |->
            [text |-> flat_docs[idx],
             source |-> IF idx <= Len(metadatas) THEN title_of(metadatas[idx]) ELSE Absent]]

Synthesize ==
    /\ ~synth.called
    /\ LET bullets == _synthesize_bullets(synth.documents, synth.metadatas)
       IN  synth' = [synth EXCEPT !.called = TRUE, !.bullets = bullets,
                                  !.result_empty = (bullets = <<>>)]
    /\ UNCHANGED <<catalog, index, vdb, pc, req, env, resp, calls, round, prevIds,
                   ingestVars, chunker>>

\* documents lists with their parallel metadatas
SynthInputs ==
    {[documents |-> [i \in DOMAIN ks |-> Entry(ks[i].kind, i)],
      metadatas |-> [i \in DOMAIN ks |-> Meta(ks[i].shape, i)],
      called |-> FALSE, bullets |-> <<>>, result_empty |-> FALSE] :
        ks \in SeqsUpTo([kind : EntryKinds, shape : MetaShapes], MaxSynthDocs)}

InitSynth ==
    /\ catalog = [p \in PolicyIds |-> NoRow]
    /\ index = <<>>
    /\ vdb = [assistant |-> NoClient, policy |-> NoClient]
    /\ pc = "idle"
    /\ req = NoReq
    /\ env = NoEnv
    /\ resp = NoResp
    /\ calls = NoCalls
    /\ round = 1
    /\ prevIds = {}
    /\ handlers = [h \in Handlers |-> Idle(0)]
    /\ deletedAck = {}
    /\ ops = 0
    /\ nextDoc = 1
    /\ chunker = NoChunker
    /\ synth \in SynthInputs

NextSynth == Synthesize

SpecSynth == InitSynth /\ [][NextSynth]_vars

-----------------------------------------------------------------------------
(* _validate_and_extract_policy_info applied to a prompt *)

Prompts == SeqsUpTo(PromptWords, MaxPromptLen) \ {<<>>}

Extract(raised) ==
    /\ pc = "extract"
    /\ req' = [req EXCEPT
                 !.validation = _validate_and_extract_policy_info(req.question, raised)]
    /\ calls' = [calls EXCEPT !.extract = @ + 1]
    /\ pc' = IF raised THEN "extract_failed" ELSE "extracted"
    /\ UNCHANGED <<catalog, index, vdb, env, resp, round, prevIds, ingestVars, chunker, synth>>

InitExtract ==
    /\ catalog = [p \in PolicyIds |-> NoRow]
    /\ index = <<>>
    /\ vdb = [assistant |-> NoClient, policy |-> NoClient]
    /\ pc = "extract"
    /\ req \in {[NoReq EXCEPT !.question = user_prompt] : user_prompt \in Prompts}
    /\ env = NoEnv
    /\ resp = NoResp
    /\ calls = NoCalls
    /\ round = 1
    /\ prevIds = {}
    /\ handlers = [h \in Handlers |-> Idle(0)]
    /\ deletedAck = {}
    /\ ops = 0
    /\ nextDoc = 1
    /\ chunker = NoChunker
    /\ synth = NoSynth

NextExtract == \E raised \in BOOLEAN : Extract(raised)

SpecExtract == InitExtract /\ [][NextExtract]_vars

-----------------------------------------------------------------------------
(* Specification of the chat request *)

\* chunks of an index in Init: ids are distinct, chunk_index counts per policy
IndexOf(kinds) ==
    [i \in DOMAIN kinds |->
        Chunk(kinds[i].policy_id,
              Cardinality({j \in 1..(i - 1) : kinds[j].policy_id = kinds[i].policy_id}),
              kinds[i].policy_type, 1)]

Init ==
    /\ catalog \in [PolicyIds -> Rows]
    /\ index \in {IndexOf(k) :
                    k \in SeqsUpTo([policy_id : PolicyIds, policy_type : StoredTypes],
                                   MaxChunks)}
    /\ vdb = [assistant |-> NoClient, policy |-> NoClient]
    /\ pc = "idle"
    /\ req = NoReq
    /\ env = NoEnv
    /\ resp = NoResp
    /\ calls = NoCalls
    /\ round = 1
    /\ prevIds = {}
    /\ handlers = [h \in Handlers |-> Idle(0)]
    /\ deletedAck = {}
    /\ ops = 0
    /\ nextDoc = 1
    /\ chunker = NoChunker
    /\ synth = NoSynth

Next ==
    \/ \E message \in Questions, raw \in RawTypes : ChatRoute(message, raw)
    \/ Repeat
    \/ Validate
    \/ Embed
    \/ Search
    \/ Collect
    \/ Complete
    \/ Fallback
    \/ Except

Spec == Init /\ [][Next]_vars

\* a step of get_policy_chat_response between its call and its return
RequestStep == Validate \/ Embed \/ Search \/ Collect \/ Complete \/ Fallback \/ Except

\* the event loop resumes the coroutine of a request whenever it can continue,
\* and the awaited provider calls come back with a result or an exception
InitLive == Init /\ Len(index) <= MaxLiveChunks

SpecLive == InitLive /\ [][Next]_vars /\ WF_vars(RequestStep)

\* catalogs of MaxCatalog rows: the first k of type hr, the others of type it
DeepCatalogs ==
    {[p \in 1..MaxCatalog |->
        [exists |-> TRUE, type |-> IF p <= k THEN "hr" ELSE "it",
         description |-> "text", document_path |-> 0]] : k \in 0..MaxCatalog}

\* the policies owning the chunks of the large index, nearest first
DeepOwners == {ps \in SeqsUpTo(PolicyIds, MaxDeepChunks) : Len(ps) \in {0, MaxDeepChunks}}

InitDeep ==
    /\ catalog \in DeepCatalogs
    /\ index \in {IndexOf([i \in DOMAIN ps |->
                              [policy_id |-> ps[i], policy_type |-> catalog[ps[i]].type]]) :
                    ps \in DeepOwners}
    /\ vdb = [assistant |-> NoClient, policy |-> NoClient]
    /\ pc = "idle"
    /\ req = NoReq
    /\ env = NoEnv
    /\ resp = NoResp
    /\ calls = NoCalls
    /\ round = 1
    /\ prevIds = {}
    /\ handlers = [h \in Handlers |-> Idle(0)]
    /\ deletedAck = {}
    /\ ops = 0
    /\ nextDoc = 1
    /\ chunker = NoChunker
    /\ synth = NoSynth

SpecDeep == InitDeep /\ [][Next]_vars

-----------------------------------------------------------------------------
(* Properties of the chat request *)

Answered == pc = "done" /\ resp.http = 200

EmbeddingFailedText == "Embedding failed; returned fallback results"
NoMatchingText == "No matching policy sections after filtering; used fallback."

\* the catalog rows a category selects (None: all)
PoliciesOfType(t) ==
    {p \in DOMAIN catalog : catalog[p].exists /\ (t = None \/ catalog[p].type = t)}

Ascending(s) == \A i, j \in DOMAIN s : i < j => s[i] < s[j]

Min(a, b) == IF a < b THEN a ELSE b

\* C1: when the Embedding Provider reports failure, the response has
\* success = true and context-used "Embedding failed; returned fallback
\* results", its relevant policies are exactly what the fallback catalog query
\* gives for the effective category (nothing when that query itself fails), and
\* neither the Vector Index nor the Completion Provider was invoked.
C1_EmbeddingFailureFallsBack ==
    (Answered /\ env.embed = "fail") =>
        /\ resp.success
        /\ resp.context_used.kind = EmbeddingFailedText
        /\ calls.search = 0
        /\ calls.llm = 0
        /\ LET S == PoliciesOfType(req.effective_type_filter)
               r == resp.relevant_policies
           IN  IF env.list = "ok"
               THEN /\ Range(r) \subseteq S
                    /\ Ascending(r)
                    /\ Len(r) = Min(FALLBACK_LIMIT, Cardinality(S))
               ELSE r = <<>>

C1_Witness ==
    /\ Answered
    /\ env.embed = "fail"
    /\ req.effective_type_filter = "hr"
    /\ resp.relevant_policies = <<2>>
    /\ catalog[1].exists

\* the Vector Index search failed for this request
VectorSearchFailed ==
    /\ calls.search = 1
    /\ req.embedding = EMBEDDING_DIM
    /\ \/ ~vdb.assistant.collection
       \/ env.query = "error"

\* C2: when the Vector Index search fails, the response is the fallback
\* response with success = true and a context-used string that names the
\* vector-search failure, different from the strings of an embedding failure
\* and of "no matching sections after filtering".
C2_VectorFailureHasOwnContext ==
    (Answered /\ VectorSearchFailed) =>
        /\ resp.success
        /\ resp.context_used.kind \notin {EmbeddingFailedText, NoMatchingText}

\* C3: success = false is reported only by the top-level catch-all; a failing
\* Embedding or Completion Provider never gives a response with success = false.
C3_OnlyCatchAllReportsFailure ==
    (Answered /\ ~resp.success) => resp.error

\* C4: an exception that escapes a step of the pipeline (a Policy Catalog
\* lookup during context assembly) is not propagated to the caller: the
\* response is the fixed apology, no relevant policies, success = false, with
\* the error detail.
C4_ExceptionBecomesCatchAll ==
    /\ (pc = "done" /\ req.policy_type \in valid_types /\ req.question # <<>>)
            => resp.http = 200
    /\ (pc = "done" /\ calls.lookup > 0 /\ env.lookup = "error") =>
            /\ resp.http = 200
            /\ resp.response.kind = "I apologize, but I encountered an error"
            /\ resp.relevant_policies = <<>>
            /\ ~resp.success
            /\ resp.error

C4_Witness ==
    /\ pc = "done"
    /\ calls.lookup = 2
    /\ env.lookup = "error"
    /\ resp.error

\* the distinct categories a question mentions
Mentioned(question) == {Lower(w) : w \in Range(question)} \cap PolicyType

\* C5: with no explicit filter, the effective category is the category the
\* question mentions when it mentions exactly one distinct category (however
\* often), and no filter when it mentions none or several.
C5_AutoNarrowing ==
    (calls.extract = 1 /\ req.policy_type = "all") =>
        LET cats == Mentioned(req.question)
        IN  IF Cardinality(cats) = 1
            THEN req.effective_type_filter \in cats
            ELSE req.effective_type_filter = None

C5_Witness ==
    /\ calls.extract = 1
    /\ req.policy_type = "all"
    /\ req.question = <<"IT", "IT">>
    /\ req.effective_type_filter = "it"

\* C6: an explicitly requested category is the effective category whatever the
\* question mentions, and the vector search, the re-filter and the fallback
\* query all use it.
C6_ExplicitCategoryWins ==
    (calls.extract = 1 /\ req.policy_type \in PolicyType) =>
        /\ req.effective_type_filter = req.policy_type
        /\ calls.search > 0 => calls.search_filter = req.policy_type
        /\ calls.post_filter # Unset => calls.post_filter = req.policy_type
        /\ calls.list > 0 => calls.list_filter = req.policy_type

C6_Witness ==
    /\ Answered
    /\ req.policy_type = "hr"
    /\ req.question = <<"IT">>
    /\ calls.search = 1
    /\ calls.list = 1
    /\ calls.post_filter = "hr"

\* C7: a category filter that, trimmed and lower-cased, is not one of all,
\* leave, hr, it, customer is rejected with status 400 before any step of the
\* pipeline runs; no step runs with a category outside the closed set.
C7_InvalidCategoryRejected ==
    /\ (pc # "idle" /\ req.policy_type \notin valid_types) =>
            /\ pc = "done"
            /\ resp.http = 400
            /\ calls = NoCalls
    /\ (calls # NoCalls) => req.policy_type_filter \in PolicyType \cup {None}

C7_Witness ==
    /\ pc = "done"
    /\ resp.http = 400
    /\ req.policy_type = "finance"

\* C8: the same request issued twice, with the catalog and the index unchanged
\* and the Embedding Provider, the index and the catalog behaving the same way
\* both times (the Completion Provider free to answer differently), gives the
\* same set of relevant-policy ids.
C8_SameRelevantIds ==
    (pc = "done" /\ round = 2) => Range(resp.relevant_policies) = prevIds

C8_Witness ==
    /\ pc = "done"
    /\ round = 2
    /\ prevIds = {1, 2}
    /\ calls.llm = 1
    /\ ~resp.success

SynthesisText == "Here's what the policy content indicates"

\* C15: when the Completion Provider returns a text matching the no-answer
\* pattern and at least one chunk was retrieved, the answer is the
\* deterministic synthesis, a bullet list of at most 3 items built from the
\* retrieved chunks, with success = true, and not the provider's text.
C15_RefusalIsSynthesized ==
    (/\ Answered
     /\ calls.llm = 1
     /\ matches_no_answer_pat(calls.llm_text)
     /\ req.docs # <<>>) =>
        /\ resp.response.kind = SynthesisText
        /\ resp.response.n = Min(3, Len(req.docs))
        /\ resp.response.arg # calls.llm_text
        /\ resp.success

C15_Witness ==
    /\ Answered
    /\ calls.llm = 1
    /\ calls.llm_text = "I cannot find this in the provided context"
    /\ Len(req.docs) = MaxDeepChunks
    /\ resp.response = Txt(SynthesisText, 3, "")
    /\ resp.success

\* C16: when the request names a category of which the Policy Catalog holds
\* no policy, the response text is the "couldn't find any <category> policies"
\* message naming that category and there are no relevant policies, whatever
\* the Vector Index holds.
C16_EmptyCategoryMessage ==
    (/\ Answered
     /\ req.policy_type \in PolicyType
     /\ PoliciesOfType(req.policy_type) = {}
     /\ env.list # "error"
     /\ env.lookup # "error") =>
        /\ resp.response = Txt("I couldn't find any policies matching your query.", 0,
                               req.policy_type)
        /\ resp.relevant_policies = <<>>

\* C17: every response of the fallback path has success = true and a
\* non-empty text, also when the fallback's own catalog query fails; it lists
\* at most 5 policies and, with an effective category, only policies of that
\* category.
C17_FallbackAlwaysAnswers ==
    (Answered /\ calls.list = 1) =>
        /\ resp.success
        /\ resp.response.kind \notin {"", None}
        /\ Len(resp.relevant_policies) <= FALLBACK_LIMIT
        /\ req.effective_type_filter \notin {None, ""} =>
              \A i \in DOMAIN resp.relevant_policies :
                  catalog[resp.relevant_policies[i]].type = req.effective_type_filter
        /\ env.list = "error" =>
              /\ resp.relevant_policies = <<>>
              /\ resp.response.kind = "I couldn't retrieve policy information at this time."

C17_Witness ==
    /\ Answered
    /\ calls.list = 1
    /\ env.list = "ok"
    /\ req.effective_type_filter = "hr"
    /\ Cardinality(PoliciesOfType("hr")) = MaxCatalog
    /\ Len(resp.relevant_policies) = FALLBACK_LIMIT

\* C22: with an effective category, every chunk that counts for the context,
\* the matched-section count and the relevant-policy ids has a category that,
\* trimmed and lower-cased, equals the effective category, also when the
\* Vector Index did not apply the filter; when no retrieved chunk passes the
\* re-filter the request gives the fallback response with success = true.
C22_RefilterByCategory ==
    (calls.post_filter # Unset /\ req.effective_type_filter \notin {None, ""}) =>
        /\ \A i \in DOMAIN req.docs :
              _norm(req.docs[i].policy_type) = _norm(req.effective_type_filter)
        /\ (Answered /\ calls.llm = 1) =>
              /\ resp.context_used.n = Len(req.docs)
              /\ Range(resp.relevant_policies)
                    \subseteq {req.docs[i].policy_id : i \in DOMAIN req.docs}
        /\ req.docs = <<>> =>
              /\ pc \in {"fallback", "done"}
              /\ pc = "done" =>
                    /\ calls.list = 1
                    /\ calls.llm = 0
                    /\ resp.success
                    /\ ~resp.error

C22_Witness ==
    /\ Answered
    /\ env.query = "unfiltered"
    /\ req.effective_type_filter = "hr"
    /\ calls.llm = 1
    /\ Len(index) = 2
    /\ index[1].policy_type = "it"
    /\ Len(req.docs) = 1
    /\ resp.context_used.n = 1

\* the position of the first chunk of policy p among the chunks metas
FirstChunk(metas, p) == SetMin({i \in DOMAIN metas : metas[i].policy_id = p})

\* C23: in the retrieval path the relevant policies are ordered by the first
\* appearance of their ids among the retrieved chunks: A precedes B exactly
\* when A's first chunk was retrieved before B's first chunk.
C23_FirstSeenOrder ==
    (Answered /\ calls.llm = 1) =>
        \A i, j \in DOMAIN resp.relevant_policies :
            i < j => FirstChunk(req.docs, resp.relevant_policies[i])
                        < FirstChunk(req.docs, resp.relevant_policies[j])

\* C24: in every response the relevant policies hold no id twice and every
\* entry is a PolicyRecord that existed when it was looked up; a retrieved
\* chunk whose policy id does not resolve gives no entry and no error.
C24_DistinctExistingPolicies ==
    /\ Answered =>
          /\ \A i, j \in DOMAIN resp.relevant_policies :
                i # j => resp.relevant_policies[i] # resp.relevant_policies[j]
          /\ \A i \in DOMAIN resp.relevant_policies :
                catalog[resp.relevant_policies[i]].exists
    /\ (pc = "done" /\ calls.lookup > 0 /\ env.lookup = "ok") =>
          /\ resp.http = 200
          /\ ~resp.error

C24_Witness ==
    /\ Answered
    /\ calls.llm = 1
    /\ calls.lookup = 2
    /\ ~catalog[1].exists
    /\ catalog[2].exists
    /\ resp.relevant_policies = <<2>>
    /\ ~resp.error

\* C25: the Completion Provider is invoked at most once for a request and
\* only with a non-empty context block; with an empty context block (no chunk
\* left, no description line) the response is the fallback response with
\* context-used "No matching policy sections after filtering; used fallback."
\* and success = true.
C25_ProviderOnlyWithContext ==
    /\ calls.llm <= 1
    /\ (pc = "llm" \/ calls.llm = 1) =>
          Len(context_texts(catalog, rel_ids(req.docs))) + Len(req.docs) > 0
    /\ (pc = "done" /\ calls.post_filter # Unset /\ req.docs = <<>>) =>
          /\ calls.llm = 0
          /\ calls.list = 1
          /\ resp.http = 200
          /\ resp.context_used.kind = NoMatchingText
          /\ resp.success

C25_Witness ==
    /\ Answered
    /\ env.query = "ok"
    /\ index # <<>>
    /\ calls.post_filter = "hr"
    /\ req.docs = <<>>
    /\ calls.llm = 0
    /\ resp.context_used.kind = NoMatchingText

GenericText == "I couldn't find an answer in the current policies."

\* C26: the synthesis replaces the provider's answer only when the provider's
\* text matches the no-answer pattern and at least one chunk was retrieved; in
\* every other case the response carries the provider's text and success flag
\* as they are, with the generic "couldn't find an answer" text exactly when
\* the provider's text is empty.
C26_SynthesisOnlyOnRefusal ==
    (Answered /\ calls.llm = 1) =>
        LET text == calls.llm_text
            synthesized == resp.response.kind = SynthesisText
        IN  /\ synthesized <=> (matches_no_answer_pat(text) /\ req.docs # <<>>)
            /\ ~synthesized =>
                  /\ resp.success = (text \in LlmTexts)
                  /\ resp.response = IF text = "" THEN Txt(GenericText, 0, "")
                                      ELSE Txt("provider text", 0, text)
            /\ resp.response.kind = GenericText <=> text = ""

\* C30: a chat request only reads the shared state: on every path (provider
\* answer, synthesis, each fallback, catch-all) the PolicyRecords of the
\* Policy Catalog and the chunks of the Vector Index are the same after the
\* request as before it.
C30_AnswerIsReadOnly == [][catalog' = catalog /\ index' = index]_vars

C30_Witness ==
    /\ Answered
    /\ round = 2
    /\ calls.search >= 1
    /\ calls.lookup >= 1
    /\ resp.response.kind = SynthesisText
    /\ index # <<>>
    /\ \E p \in DOMAIN catalog : catalog[p] # NoRow

\* C33: in a response of the retrieval path with an effective category, every
\* policy of the relevant-policies list has that category in the Policy
\* Catalog now, whatever creates, updates and deletes came before.
C33_RelevantOfEffectiveCategory ==
    (/\ Answered
     /\ calls.llm = 1
     /\ req.effective_type_filter \notin {None, ""}) =>
        \A i \in DOMAIN resp.relevant_policies :
            Lower(catalog[resp.relevant_policies[i]].type)
                = _norm(req.effective_type_filter)

\* a response text that is not the empty string
NonEmptyText(t) ==
    /\ t.kind \notin {None, ""}
    /\ t.kind = "provider text" => t.arg # ""

\* C31: every request that reaches get_policy_chat_response ends, with one
\* response, and the answer text of that response is not empty, on every
\* path: provider answer, generic substitute, synthesis, every fallback
\* (no policy and catalog failure included) and the catch-all.
C31_OneNonEmptyAnswer ==
    /\ [](pc # "done" => resp = NoResp)
    /\ []((pc = "done" /\ calls.extract = 1) =>
             resp.http = 200 /\ NonEmptyText(resp.response))
    /\ (pc = "validate" ~> pc = "done")

C31_Witness ==
    /\ Answered
    /\ round = 2
    /\ calls.search = 1
    /\ calls.list = 1
    /\ env.list = "error"
    /\ resp.response = Txt("I couldn't retrieve policy information at this time.", 0, "")

-----------------------------------------------------------------------------
(* Properties of the catalog handlers and the index *)

Quiescent == \A h \in Handlers : handlers[h].pc = "idle"

\* C9: once delete_document(id) has returned its success value, no search
\* returns a chunk whose policy_id is id, until chunks of id are added again.
C9_NoChunkAfterDelete ==
    \A i \in DOMAIN SearchNow : SearchNow[i].policy_id \notin deletedAck

\* C10: in every quiescent state every chunk of the Vector Index carries the
\* id of a policy that exists in the Policy Catalog.
C10_NoOrphanChunks ==
    Quiescent => \A i \in DOMAIN index : catalog[index[i].policy_id].exists

\* C11: when update_policy replaces a policy's document, the old chunks are
\* deleted before a chunk of the new document is inserted, and once the update
\* is acknowledged the Vector Index holds no chunk that came from an earlier
\* document of that policy.
C11_ReplaceLeavesNoOldChunk ==
    [][\A h \in Handlers :
          (/\ handlers[h].op = "update"
           /\ handlers'[h].pc = "idle"
           /\ handlers'[h].status = 200)
          => \A i \in DOMAIN index' :
                index'[i].policy_id = handlers[h].pid
                    => index'[i].doc >= handlers[h].doc]_vars

\* C12: after any sequence of create, update and delete operations every chunk
\* of the Vector Index carries the current category of the PolicyRecord that
\* owns it.
C12_ChunkCategoryAgrees ==
    Quiescent =>
        \A i \in DOMAIN index :
            catalog[index[i].policy_id].exists
                => index[i].policy_type = Lower(catalog[index[i].policy_id].type)

\* C13: a search at any point of a document replacement or deletion never
\* returns chunks of two document versions of the same policy.
C13_NoMixedVersions ==
    \A i, j \in DOMAIN SearchNow :
        SearchNow[i].policy_id = SearchNow[j].policy_id
            => SearchNow[i].doc = SearchNow[j].doc

\* C21: a failure during document ingestion (file write, text extraction,
\* embedding, Vector Index insertion) neither removes the committed
\* PolicyRecord nor makes create_policy fail: the policy stays in the catalog,
\* possibly with no chunk in the index.
C21_IngestionFailureKeepsPolicy ==
    [][\A h \in Handlers :
          (handlers[h].op = "create" /\ handlers'[h] # handlers[h]) =>
              LET id == handlers[h].pid
              IN  /\ catalog'[id].exists = catalog[id].exists
                  /\ (handlers'[h].pc = "idle" /\ catalog[id].exists)
                        => handlers'[h].status = 201]_vars

C21_Witness ==
    /\ Quiescent
    /\ ops = 1
    /\ nextDoc = 2
    /\ handlers[1].status = 201
    /\ catalog[1].exists
    /\ catalog[1].document_path = 1
    /\ index = <<>>

\* C34: a request to update a policy id that does not exist ends with 404
\* "Policy not found", as get and delete of such an id do, and changes
\* nothing in the Policy Catalog or the Vector Index.
C34_UpdateOfMissingIs404 ==
    [][\A h \in Handlers, p \in PolicyIds, t \in StoredTypes \cup {None},
          n \in 0..MaxDocChunks :
          (UpdatePolicy(h, p, t, n) /\ ~catalog[p].exists) =>
              /\ handlers'[h].pc = "idle"
              /\ handlers'[h].status = 404
              /\ handlers'[h].status = delete_status(FALSE, FALSE)
              /\ catalog' = catalog
              /\ index' = index]_vars

\* C35: when delete_policy ends with an error, the deletion in the catalog
\* having failed and been rolled back, the policy is as it was: its
\* PolicyRecord exists and all of its chunks are still in the Vector Index.
C35_FailedDeleteChangesNothing ==
    [][\A h \in Handlers, p \in PolicyIds :
          (/\ DeletePolicy(h, p)
           /\ catalog[p].exists
           /\ handlers'[h].status = 500) =>
              /\ catalog'[p] = catalog[p]
              /\ SelectSeq(index', LAMBDA c : c.policy_id = p)
                    = SelectSeq(index, LAMBDA c : c.policy_id = p)]_vars

\* two handlers are replacing the document of policy p at the same time
BothReplacing(p) ==
    \E h, g \in Handlers :
        /\ h # g
        /\ handlers[h].pc # "idle" /\ handlers[h].op = "update" /\ handlers[h].pid = p
        /\ handlers[g].pc # "idle" /\ handlers[g].op = "update" /\ handlers[g].pid = p

\* the chunks of policy p all come from the document its row names
OneVersion(p) ==
    \A i \in DOMAIN index :
        index[i].policy_id = p => index[i].doc = catalog[p].document_path

\* C32: when two replacements of the document of one policy run at the same
\* time, their steps interleaving at the await points, then once both have
\* completed the Vector Index holds chunks of one of the two documents only,
\* and it is the document recorded in the policy's document path.
C32_ConcurrentReplacements ==
    \A p \in PolicyIds : [](BothReplacing(p) => [](Quiescent => OneVersion(p)))

-----------------------------------------------------------------------------
(* Properties of the synthesis *)

\* the str texts of a documents list: the str entries and the str items of
\* its lists
StrTexts(documents) ==
    {documents[i].text : i \in {j \in DOMAIN documents : documents[j].kind = "str"}}
        \cup {documents[i].items[k].text :
                 i \in {j \in DOMAIN documents : documents[j].kind = "list"},
                 k \in {1, 3}}

\* a stands before b in the documents list
TextBefore(a, b) == a.entry < b.entry \/ (a.entry = b.entry /\ a.item < b.item)

\* C27: the synthesis over n flattened chunk texts gives exactly min(3, n)
\* bullets, bullet i built from the i-th text in retrieval order (lists
\* flattened in order, entries that are not strings dropped), and gives the
\* empty string if and only if n = 0.
C27_BulletsOfFirstThree ==
    synth.called =>
        LET texts == StrTexts(synth.documents)
            n == Cardinality(texts)
        IN  /\ Len(synth.bullets) = Min(3, n)
            /\ \A i \in DOMAIN synth.bullets :
                  /\ synth.bullets[i].text \in texts
                  /\ Cardinality({t \in texts : TextBefore(t, synth.bullets[i].text)}) = i - 1
            /\ synth.result_empty <=> n = 0

C27_Witness ==
    /\ synth.called
    /\ Len(synth.documents) = MaxSynthDocs
    /\ synth.documents[1].kind = "other"
    /\ synth.documents[2].kind = "list"
    /\ synth.documents[3].kind = "str"
    /\ synth.documents[4].kind = "str"
    /\ Len(synth.bullets) = 3
    /\ synth.bullets[3].text = Text(3, 0)

\* the source the metadata meta names: policy name, else title, else policy id
Preferred(meta) ==
    IF meta.policy_name # Absent THEN meta.policy_name
    ELSE IF meta.title # Absent THEN meta.title
    ELSE IF meta.policy_id # Absent THEN meta.policy_id
    ELSE Absent

-----------------------------------------------------------------------------
(* Properties of the chunker *)

\* ceil(a / b) for b >= 1
CeilDiv(a, b) == (a + b - 1) \div b

\* C14: for a document whose extracted text has W words in total and a chunk
\* size C >= 1, the chunker produces exactly ceil(W / C) chunks, every chunk
\* but the last has exactly C words, and a document with no extractable text
\* gives no chunk.
C14_ChunkCount ==
    (chunker.called /\ (chunker.chunks # <<>> \/ Sum(chunker.pages) = 0)) =>
        LET W == Sum(chunker.pages)
            C == chunker.chunk_size
            out == chunker.chunks
        IN  /\ Len(out) = CeilDiv(W, C)
            /\ \A i \in 1..(Len(out) - 1) : Len(out[i]) = C
            /\ W = 0 => out = <<>>

\* the whitespace-delimited words of the extracted text, page after page
RECURSIVE ExtractedWords(_)
ExtractedWords(pages) ==
    IF pages = <<>> THEN <<>>
    ELSE ExtractedWords(SubSeq(pages, 1, Len(pages) - 1))
            \o [k \in 1..pages[Len(pages)] |-> [page |-> Len(pages), k |-> k]]

\* the words of the chunks, chunk after chunk
RECURSIVE ChunkWords(_)
ChunkWords(chunks) ==
    IF chunks = <<>> THEN <<>>
    ELSE ChunkWords(SubSeq(chunks, 1, Len(chunks) - 1)) \o chunks[Len(chunks)]

\* C29: the words of the produced chunks, in output order, are exactly the
\* words of the extracted text (none dropped, duplicated or reordered, no
\* overlap), no chunk has more than C words, and a failing text extraction
\* gives the empty chunk list, not an exception.
C29_LosslessChunks ==
    chunker.called =>
        IF chunker.raised THEN chunker.chunks = <<>>
        ELSE /\ ChunkWords(chunker.chunks) = ExtractedWords(chunker.pages)
             /\ \A i \in DOMAIN chunker.chunks :
                   Len(chunker.chunks[i]) <= chunker.chunk_size

C29_Witness ==
    /\ chunker.called
    /\ ~chunker.raised
    /\ chunker.pages = <<3, 2>>
    /\ chunker.chunk_size = 2
    /\ Len(chunker.chunks) = 3
    /\ Len(chunker.chunks[2]) = 1

-----------------------------------------------------------------------------
(* Properties of the extractor *)

\* the first position at which category c stands in the question as a word
FirstAt(question, c) == SetMin({i \in DOMAIN question : Lower(question[i]) = c})

\* C18: the extracted category list holds exactly the categories that occur
\* in the question as whole words, compared case-insensitively and lower-cased,
\* in order of first appearance and without duplicates; a category that
\* occurs only inside a longer word is not extracted.
C18_CategoriesExtracted ==
    pc = "extracted" =>
        LET types == req.validation.extracted_policy_types
        IN  /\ Range(types) = Mentioned(req.question)
            /\ \A i, j \in DOMAIN types :
                  i < j => FirstAt(req.question, types[i]) < FirstAt(req.question, types[j])

C18_Witness ==
    /\ pc = "extracted"
    /\ req.question = <<"IT", "hr">>
    /\ req.validation.extracted_policy_types = <<"it", "hr">>

\* C19: the intent is list_policies if the lower-cased question contains one
\* of show, list, all, get; otherwise get_policy_details if it contains one of
\* details, about, "what is", explain; otherwise search_policies if it contains
\* one of find, search, "look for"; otherwise general_query.
C19_IntentByPriority ==
    pc = "extracted" =>
        LET intent == req.validation.intent
            lists == any_in(req.question, {"show", "list", "all", "get"})
            details == any_in(req.question, {"details", "about", "what is", "explain"})
            searches == any_in(req.question, {"find", "search", "look for"})
        IN  /\ intent \in {"list_policies", "get_policy_details", "search_policies",
                           "general_query"}
            /\ intent = "list_policies" <=> lists
            /\ intent = "get_policy_details" <=> (~lists /\ details)
            /\ intent = "search_policies" <=> (~lists /\ ~details /\ searches)
            /\ intent = "general_query" <=> (~lists /\ ~details /\ ~searches)

C19_Witness ==
    /\ pc = "extracted"
    /\ req.question = <<"find", "install">>
    /\ req.validation.intent = "list_policies"

\* C20: the confidence is high if and only if a policy name or a category was
\* extracted; otherwise medium if and only if "policy" appears in the
\* lower-cased question; otherwise low.  On an internal error the extractor
\* returns the defaults (no names, no categories, general_query) with
\* confidence low.
C20_Confidence ==
    /\ pc = "extracted" =>
          LET v == req.validation
              found == v.extracted_policy_names # <<>> \/ v.extracted_policy_types # <<>>
              policy == \E i \in DOMAIN req.question :
                            "policy" \in substrings_of(req.question[i])
          IN  /\ v.confidence = "high" <=> found
              /\ v.confidence = "medium" <=> (~found /\ policy)
              /\ v.confidence = "low" <=> (~found /\ ~policy)
    /\ pc = "extract_failed" =>
          req.validation = [is_valid |-> TRUE, extracted_policy_names |-> <<>>,
                            extracted_policy_types |-> <<>>, intent |-> "general_query",
                            confidence |-> "low"]

C20_Witness ==
    /\ pc = "extracted"
    /\ req.question = <<"what", "policy">>
    /\ req.validation.extracted_policy_names = <<<<"what">>>>
    /\ req.validation.extracted_policy_types = <<>>
    /\ req.validation.confidence = "high"

====
